---- MODULE Spec2Model ----
(***************************************************************************)
(* A model of the uamutations crate: the two calculate_dists engines       *)
(* (src/src/calculate_dists.rs: dynamic programming; src/src/vector_fns.rs:*)
(* greedy nearest neighbour), the regression adjustment adj_for_beta       *)
(* (src/src/mlr.rs, src/src/lib.rs) and the orchestrator uamutate          *)
(* (src/src/lib.rs).                                                       *)
(*                                                                         *)
(* Numbers.  Matrix entries are integers (each is an exact f64).  A value  *)
(* produced by an f64 division is a reduced fraction <<n, d>> with d >= 0; *)
(* d = 0 holds the special values of IEEE-754 division:                    *)
(* <<1, 0>> = +inf, <<-1, 0>> = -inf, <<0, 0>> = NaN.  Indices keep the    *)
(* source's 0-based values; At(s, i) reads position i of a Rust slice.     *)
(***************************************************************************)
EXTENDS Integers, Sequences, FiniteSets, TLC

----------------------------------------------------------------------------
(* Bounds of the model *)

\* longest row (number of observations) drawn for an input matrix
MaxObs == 3
\* entries of the input matrices are drawn from (0 - MaxNeg)..MaxVal
MaxVal == 2
MaxNeg == 1
\* most auxiliary variables (rows after row 0) of a multi-row matrix
MaxAux == 1
\* entries of the auxiliary rows are drawn from 0..MaxAuxVal
MaxAuxVal == 1
\* group ids are drawn from 0..MaxGroup
MaxGroup == 2
\* in a run of uamutate group ids are drawn from 0..MaxUaGroup
MaxUaGroup == 1

Vals == (0 - MaxNeg)..MaxVal

\* entries of row 0 of a multi-row matrix
PrimaryVals == 0..MaxVal

AuxVals == 0..MaxAuxVal

----------------------------------------------------------------------------
(* Arithmetic helpers *)

Abs(x) == IF x < 0 THEN 0 - x ELSE x

Sgn(x) == IF x < 0 THEN 0 - 1 ELSE IF x > 0 THEN 1 ELSE 0

Min(a, b) == IF a < b THEN a ELSE b

RECURSIVE GCD(_, _)
GCD(a, b) == IF b = 0 THEN a ELSE GCD(b, a % b)

\* the reduced fraction n/d, for d >= 0
Norm(n, d) ==
    IF d = 0 THEN <<Sgn(n), 0>>
    ELSE LET g == GCD(Abs(n), d) IN <<n \div g, d \div g>>

\* an integer as a fraction
Rat(n) == <<n, 1>>

IsNaN(x) == x = <<0, 0>>

IsFinite(x) == x[2] > 0

\* f64 division a / b of two integers: x/0 is +inf, -inf or NaN
FDiv(a, b) ==
    IF b = 0 THEN <<Sgn(a), 0>>
    ELSE IF b < 0 THEN Norm(0 - a, 0 - b)
    ELSE Norm(a, b)

\* position i (0-based) of a slice
At(s, i) == s[i + 1]

RECURSIVE SumSeq(_)
SumSeq(s) == IF s = <<>> THEN 0 ELSE Head(s) + SumSeq(Tail(s))

\* the elements of s as a bag: how often each value occurs
CountIn(s, v) == Cardinality({k \in 1..Len(s) : s[k] = v})

----------------------------------------------------------------------------
(* Matrices: a sequence of rows (variables), each a sequence of            *)
(* observations, as ndarray::Array2 of shape (variables, observations).    *)

NRows(m) == Len(m)

NCols(m) == IF Len(m) = 0 THEN 0 ELSE Len(m[1])

\* Array2::dim
Dim(m) == <<NRows(m), NCols(m)>>

\* a changed is_empty: a matrix without rows only
IsEmptyRowsOnly(m) == NRows(m) = 0

\* Array2::is_empty: no element at all
IsEmpty(m) == NRows(m) = 0 \/ NCols(m) = 0

\* the rows of length n over Vals
RowsOfLen(n) == [1..n -> Vals]

\* single-row matrices with 0..MaxObs observations
SingleRowMatrices == {<<r>> : r \in UNION {RowsOfLen(n) : n \in 0..MaxObs}}

\* the inputs of the tests test_calculate_dists_absolute / _relative
TestValues1 == <<<<1, 2, 4, 5>>>>

TestValues2 == <<<<7, 9, 3, 2>>>>

----------------------------------------------------------------------------
(* Sorting (slice::sort_by is a stable sort) *)

\* a changed stable sort: equal keys come out in reverse index order
RECURSIVE StableOrderTiesReversed(_, _)
StableOrderTiesReversed(keys, idxs) ==
    IF idxs = {} THEN <<>>
    ELSE LET m == CHOOSE i \in idxs : \A j \in idxs :
                     \/ At(keys, i) < At(keys, j)
                     \/ At(keys, i) = At(keys, j) /\ i >= j
         IN <<m>> \o StableOrderTiesReversed(keys, idxs \ {m})

\* the 0-based indices in idxs, ascending by key, equal keys in index order
RECURSIVE StableOrder(_, _)
StableOrder(keys, idxs) ==
    IF idxs = {} THEN <<>>
    ELSE LET m == CHOOSE i \in idxs : \A j \in idxs :
                     \/ At(keys, i) < At(keys, j)
                     \/ At(keys, i) = At(keys, j) /\ i <= j
         IN <<m>> \o StableOrder(keys, idxs \ {m})

\* the key sort_by compares: b.cmp(a) (descending) is ascending on the
\* negated key, and keeps equal elements in their original order
SortKey(v, desc, is_abs) ==
    LET k == IF is_abs THEN Abs(v) ELSE v IN IF desc THEN 0 - k ELSE k

\* values2_sorted.sort_by(|a, b| a.partial_cmp(b).unwrap())
SortAscending(s) ==
    LET order == StableOrder(s, 0..(Len(s) - 1))
    IN [k \in 1..Len(s) |-> At(s, order[k])]

----------------------------------------------------------------------------
(* src/src/calculate_dists.rs: the dynamic-programming engine *)

\* a changed loop: reorder_index[i] = idx in place of reorder_index[idx] = i
RECURSIVE ReorderIndexSwapped(_, _, _)
ReorderIndexSwapped(index, i, reorder_index) ==
    IF i >= Len(index) THEN reorder_index
    ELSE ReorderIndexSwapped(index, i + 1,
            [reorder_index EXCEPT ![i + 1] = At(index, i)])

\* the loop of get_ordering_index from position i on:
\* reorder_index[idx] = i for (i, &idx) in index.iter().enumerate()
RECURSIVE ReorderIndex(_, _, _)
ReorderIndex(index, i, reorder_index) ==
    IF i >= Len(index) THEN reorder_index
    ELSE ReorderIndex(index, i + 1,
            [reorder_index EXCEPT ![At(index, i) + 1] = i])

\* get_ordering_index: index_sort and index_reorder
cd_get_ordering_index(vals, desc, is_abs) ==
    LET n == Len(vals)
        keys == [k \in 1..n |-> SortKey(vals[k], desc, is_abs)]
        index == StableOrder(keys, 0..(n - 1))
    IN [index_sort |-> index,
        index_reorder |-> ReorderIndex(index, 0, [p \in 1..n |-> 0])]

\* the body of the double loop for one cell (i, j)
FillCell(st, arr1, arr2, i, j) ==
    LET diag == st.dp[i - 1][j - 1] + Abs(At(arr1, i - 1) - At(arr2, j - 1))
        up == st.dp[i - 1][j]
        left == st.dp[i][j - 1]
    IN IF diag < Min(up, left)
       THEN [dp |-> [st.dp EXCEPT ![i][j] = diag],
             pairs |-> [st.pairs EXCEPT
                            ![i][j] = <<At(arr1, i - 1), At(arr2, j - 1)>>]]
       ELSE IF up < left
       THEN [dp |-> [st.dp EXCEPT ![i][j] = up],
             pairs |-> [st.pairs EXCEPT ![i][j] = st.pairs[i - 1][j]]]
       ELSE [dp |-> [st.dp EXCEPT ![i][j] = left],
             pairs |-> [st.pairs EXCEPT ![i][j] = st.pairs[i][j - 1]]]

\* for i in 1..=n { for j in 1..=n { ... } }, from cell (i, j) on
RECURSIVE FillFrom(_, _, _, _, _)
FillFrom(st, arr1, arr2, i, j) ==
    LET n == Len(arr1)
    IN IF i > n THEN st
       ELSE IF j > n THEN FillFrom(st, arr1, arr2, i + 1, 1)
       ELSE FillFrom(FillCell(st, arr1, arr2, i, j), arr1, arr2, i, j + 1)

\* dp and pairs as allocated: vec![vec![0.0; n + 1]; n + 1] and (0.0, 0.0)
EmptyTables(n) ==
    [dp |-> [i \in 0..n |-> [j \in 0..n |-> 0]],
     pairs |-> [i \in 0..n |-> [j \in 0..n |-> <<0, 0>>]]]

\* the tables after the double loop
FilledTables(arr1, arr2) ==
    FillFrom(EmptyTables(Len(arr1)), arr1, arr2, 1, 1)

\* while i > 0 && j > 0 { ... }: arr1_with_pos[i - 1].1 is i - 1
RECURSIVE Backtrack(_, _, _, _)
Backtrack(pairs, ordered_arr2, i, j) ==
    IF i > 0 /\ j > 0
    THEN IF pairs[i][j] # pairs[i - 1][j]
         THEN Backtrack(pairs, [ordered_arr2 EXCEPT ![i] = pairs[i][j][2]],
                        i - 1, j - 1)
         ELSE Backtrack(pairs, ordered_arr2, i - 1, j)
    ELSE ordered_arr2

reorder_min_diff(arr1, arr2) ==
    LET n == Len(arr1)
    IN Backtrack(FilledTables(arr1, arr2).pairs, [k \in 1..n |-> 0], n, n)

\* if absolute { b - a } else { (b - a) / a }
Difference(a, b, abs) == IF abs THEN Rat(b - a) ELSE FDiv(b - a, a)

\* the locals of calculate_dists once both asserts have passed
cd_locals(v1, v2, abs) ==
    LET values1_ref_var == v1[1]
        values2_ref_var == v2[1]
        n == Len(values1_ref_var)
        sorting_order == cd_get_ordering_index(values1_ref_var, FALSE, FALSE)
        v1s == [k \in 1..n |->
                   At(values1_ref_var, sorting_order.index_sort[k])]
        v2s == reorder_min_diff(v1s, SortAscending(values2_ref_var))
        differences == [k \in 1..n |-> Difference(v1s[k], v2s[k], abs)]
    IN [values1_sorted |-> v1s,
        values2_sorted |-> v2s,
        differences |->
            [p \in 1..n |-> At(differences, sorting_order.index_reorder[p])]]

----------------------------------------------------------------------------
(* src/src/vector_fns.rs: the greedy multi-dimensional engine *)

\* matrices of r variables and n observations
MatricesOf(r, n) ==
    {<<p>> \o a : p \in [1..n -> PrimaryVals],
                  a \in [1..(r - 1) -> [1..n -> AuxVals]]}

MultiRowMatrices ==
    UNION {MatricesOf(r, n) : r \in 1..(1 + MaxAux), n \in 0..MaxObs}

\* a changed get_ordering_index: the descending comparator is taken
vf_get_ordering_index_desc(vals, desc, is_abs) ==
    LET n == Len(vals)
        keys == [k \in 1..n |-> SortKey(vals[k], TRUE, is_abs)]
    IN StableOrder(keys, 0..(n - 1))

\* get_ordering_index: the sorted indices only
vf_get_ordering_index(vals, desc, is_abs) ==
    LET n == Len(vals)
        keys == [k \in 1..n |-> SortKey(vals[k], desc, is_abs)]
    IN StableOrder(keys, 0..(n - 1))

\* a changed Observation: the column is cut to the primary variable
ObservationPrimaryOnly(m, j) == <<m[1][j + 1]>>

\* row j of the transposed clone: observation j over all variables
Observation(m, j) == [r \in 1..NRows(m) |-> At(m[r], j)]

\* the sum under the square root of the distance of two observations
SquaredDist(v1, v2) ==
    SumSeq([r \in 1..Len(v1) |-> (v1[r] - v2[r]) * (v1[r] - v2[r])])

\* dist < min_dist.  A distance is held by its square: on the entries
\* modelled sqrt is strictly increasing and exact enough to keep distinct
\* sums distinct.  min_dist = <<>> is f64::MAX, above every such distance.
DistLess(dist, min_dist) == min_dist = <<>> \/ dist < min_dist[1]

\* the inner loop over the observations of values2, from observation j on
RECURSIVE NearestFrom(_, _, _, _, _, _)
NearestFrom(v1, m2, used, j, min_dist, min_index) ==
    IF j >= NCols(m2) THEN min_index
    ELSE IF j \in used
    THEN NearestFrom(v1, m2, used, j + 1, min_dist, min_index)
    ELSE LET dist == SquaredDist(v1, Observation(m2, j))
         IN IF DistLess(dist, min_dist)
            THEN NearestFrom(v1, m2, used, j + 1, <<dist>>, j)
            ELSE NearestFrom(v1, m2, used, j + 1, min_dist, min_index)

\* a changed iteration: the test used_indices.contains(&j) is left out
MinIndexIgnoringUsed(m1, m2, used, i) ==
    NearestFrom(Observation(m1, i), m2, {}, 0, <<>>, 0)

\* min_index of one iteration of the matching loop, for observation i
MinIndex(m1, m2, used, i) ==
    NearestFrom(Observation(m1, i), m2, used, 0, <<>>, 0)

\* a changed second loop: values2 is read at the position of the
\* observation of values1, not at min_index
FinalResultsByPosition(m1, m2, res, abs) ==
    [p \in 1..Len(res) |-> Difference(m1[1][p], m2[1][p], abs)]

\* the second loop: one distance per observation of values1
FinalResults(m1, m2, res, abs) ==
    [p \in 1..Len(res) |-> Difference(m1[1][p], At(m2[1], res[p][1]), abs)]

----------------------------------------------------------------------------
(* src/src/mlr.rs: regression and the adjustment of row 0.  The least      *)
(* squares solution is modelled in exact arithmetic for at most one        *)
(* predictor column, on the inputs whose solution is an integer.           *)

\* the dot product of two rows
Dot(x, y) == SumSeq([o \in 1..Len(x) |-> x[o] * y[o]])

\* the data whose least squares solution the model can state: no predictor
\* column (the solution is empty), a predictor column of zeros (the
\* minimum-norm solution is 0), or an integer quotient
LeastSquaresExact(data) ==
    \/ NRows(data) = 1
    \/ /\ NRows(data) = 2
       /\ \/ Dot(data[2], data[2]) = 0
          \/ Dot(data[2], data[1]) % Dot(data[2], data[2]) = 0

\* mlr_beta: row 0 regressed on the other rows, without intercept
mlr_beta(data) ==
    IF NRows(data) = 1 THEN <<>>
    ELSE LET target_var == data[1]
             x == data[2]
         IN IF Dot(x, x) = 0 THEN <<0>>
            ELSE <<Dot(x, target_var) \div Dot(x, x)>>

\* a changed standardise_arrays: nobs = ncols(values1), not doubled
standardise_arrays_nobs_single(m1, m2) ==
    LET nobs == NCols(m1)
        S(i) == SumSeq(m1[i]) + SumSeq(m2[i])
        Q(i) == Dot(m1[i], m1[i]) + Dot(m2[i], m2[i])
        T(m) == [i \in 1..NRows(m) |->
                    [o \in 1..NCols(m) |->
                        <<nobs * m[i][o] - S(i), nobs * Q(i) - S(i) * S(i)>>]]
    IN <<T(m1), T(m2)>>

\* standardise_arrays: every entry x of row i becomes (x - mean) / std_dev
\* with the mean and standard deviation of row i pooled over both
\* matrices and nobs = 2 * ncols(values1).  With S the pooled sum and Q the
\* pooled sum of squares that is (nobs*x - S) / sqrt(nobs*Q - S*S); an
\* entry is the pair <<nobs*x - S, nobs*Q - S*S>>.
standardise_arrays(m1, m2) ==
    LET nobs == 2 * NCols(m1)
        S(i) == SumSeq(m1[i]) + SumSeq(m2[i])
        Q(i) == Dot(m1[i], m1[i]) + Dot(m2[i], m2[i])
        T(m) == [i \in 1..NRows(m) |->
                    [o \in 1..NCols(m) |->
                        <<nobs * m[i][o] - S(i), nobs * Q(i) - S(i) * S(i)>>]]
    IN <<T(m1), T(m2)>>

\* adj_for_beta, the loop: result[i] = sum of values1[1.., i] * (1 + b2 - b1)
AdjustedRow(m1, b1, b2) ==
    [i \in 1..NCols(m1) |->
        SumSeq([k \in 1..(NRows(m1) - 1) |->
                   m1[k + 1][i] * (1 + b2[k] - b1[k])])]

\* a changed assignment: result is written to every row
AssignEveryRow(m1, result) == [r \in 1..NRows(m1) |-> result]

\* values1.row_mut(0).assign(&result)
AssignRow0(m1, result) == [m1 EXCEPT ![1] = result]

----------------------------------------------------------------------------
(* src/src/lib.rs: the aggregation of uamutate *)

\* f64 addition of two fractions
FAdd(a, b) ==
    IF IsNaN(a) \/ IsNaN(b) THEN <<0, 0>>
    ELSE IF a[2] = 0 /\ b[2] = 0 THEN (IF a[1] = b[1] THEN a ELSE <<0, 0>>)
    ELSE IF a[2] = 0 THEN a
    ELSE IF b[2] = 0 THEN b
    ELSE Norm(a[1] * b[2] + b[1] * a[2], a[2] * b[2])

\* *sum / *count as f64, for count > 0
FDivCount(a, count) == IF a[2] = 0 THEN a ELSE Norm(a[1], a[2] * count)

\* groups.iter().max()
MaxOf(s) == CHOOSE m \in {s[k] : k \in 1..Len(s)} :
                \A k \in 1..Len(s) : s[k] <= m

\* a changed first loop: sums[group] = dists[i] in place of +=
RECURSIVE AccumulateOverwriting(_, _, _, _)
AccumulateOverwriting(acc, grp, d, i) ==
    IF i > Len(grp) THEN acc
    ELSE AccumulateOverwriting(
            [counts |-> [acc.counts EXCEPT ![grp[i] + 1] = @ + 1],
             sums |-> [acc.sums EXCEPT ![grp[i] + 1] = d[i]]],
            grp, d, i + 1)

\* the first loop, from entry i on: counts[group] += 1; sums[group] +=
\* dists[i]
RECURSIVE Accumulate(_, _, _, _)
Accumulate(acc, grp, d, i) ==
    IF i > Len(grp) THEN acc
    ELSE Accumulate(
            [counts |-> [acc.counts EXCEPT ![grp[i] + 1] = @ + 1],
             sums |-> [acc.sums EXCEPT ![grp[i] + 1] = FAdd(@, d[i])]],
            grp, d, i + 1)

\* counts and sums as allocated, with max_group + 1 entries
ZeroTotals(max_group) ==
    [counts |-> [g \in 1..(max_group + 1) |-> 0],
     sums |-> [g \in 1..(max_group + 1) |-> Rat(0)]]

\* a changed second loop: the test *count != 0 is left out
MeansUnguarded(acc) ==
    [g \in 1..Len(acc.sums) |->
        IF acc.counts[g] # 0 THEN FDivCount(acc.sums[g], acc.counts[g])
        ELSE <<0, 0>>]

\* the second loop: sums become means, 0.0 where nothing was counted
Means(acc) ==
    [g \in 1..Len(acc.sums) |->
        IF acc.counts[g] # 0 THEN FDivCount(acc.sums[g], acc.counts[g])
        ELSE Rat(0)]

----------------------------------------------------------------------------
(* State *)

VARIABLES
    pc,              \* where the call stands
    values1,         \* the first matrix (uamutate: mutated in place)
    values2,         \* the second matrix
    absolute,        \* the flag of calculate_dists
    values1_sorted,  \* calculate_dists.rs: values1 row 0 in rank order
    values2_sorted,  \* calculate_dists.rs: what reorder_min_diff returned
    sorting_order,   \* vector_fns.rs: the rank order of values1 row 0
    n_matched,       \* vector_fns.rs: iterations of the matching loop done
    results,         \* vector_fns.rs: <<>> is None, <<j>> is Some(j)
    used_indices,    \* vector_fns.rs: the HashSet of matched indices
    dists,           \* the vector calculate_dists returned
    in1,             \* the first matrix as passed in (uamutate: as read)
    in2,             \* the second matrix as passed in (uamutate: as read)
    beta1,           \* adj_for_beta: mlr_beta(values1)
    beta2,           \* adj_for_beta: mlr_beta(values2)
    groups,          \* uamutate: groups1, one group id per observation
    counts,          \* uamutate: observations counted per group id
    sums,            \* uamutate: the vector handed to write_file
    ord_vals,        \* get_ordering_index: the slice vals
    ord_desc,        \* get_ordering_index: the flag desc
    ord_is_abs,      \* get_ordering_index: the flag is_abs
    ordering,        \* get_ordering_index: the OrderingIndex returned
    file,            \* readfile: the file named filename
    nentries,        \* readfile: the record limit
    read_index,      \* readfile: the vector index returned
    read_values,     \* readfile: the vector values returned
    wdata,           \* write_file: the WriteData passed as data
    ord_index,       \* write_file: the vector ord_index
    creatable,       \* write_file: whether File::create can succeed
    out_file,        \* write_file: the file named filename
    n_written,       \* write_file: iterations of the writing loop done
    vector1,         \* order_vectors, order_vectors_kd: the first argument
    vector2,         \* order_vectors, order_vectors_kd: the second argument
    mapping,         \* what order_vectors did: <<>> before the call
    mapping_kd,      \* what order_vectors_kd did: <<>> before the call
    claimed          \* the matching loop run as processes: the observations
                     \* of values1 in the order of their search-and-claim

cd_vars == <<values1_sorted, values2_sorted>>

vf_vars == <<sorting_order, n_matched, results, used_indices>>

adj_vars == <<in1, in2, beta1, beta2>>

ua_vars == <<groups, counts, sums>>

ord_vars == <<ord_vals, ord_desc, ord_is_abs, ordering>>

rf_vars == <<file, nentries, read_index, read_values>>

wf_vars == <<wdata, ord_index, creatable, out_file, n_written>>

ov_vars == <<vector1, vector2, mapping, mapping_kd>>

par_vars == <<claimed>>

vars == <<pc, values1, values2, absolute, cd_vars, vf_vars, dists, adj_vars,
          ua_vars, ord_vars, rf_vars,
                   wf_vars, ov_vars, par_vars>>

\* the variables an engine does not use, before it has run
CdIdle == values1_sorted = <<>> /\ values2_sorted = <<>>

VfIdle ==
    /\ sorting_order = <<>>
    /\ n_matched = 0
    /\ results = <<>>
    /\ used_indices = {}

AdjIdle == in1 = <<>> /\ in2 = <<>> /\ beta1 = <<>> /\ beta2 = <<>>

UaIdle == groups = <<>> /\ counts = <<>> /\ sums = <<>>

OrdIdle ==
    /\ ord_vals = <<>>
    /\ ord_desc = FALSE
    /\ ord_is_abs = FALSE
    /\ ordering = <<>>

RfIdle ==
    /\ file = <<>>
    /\ nentries = 0
    /\ read_index = <<>>
    /\ read_values = <<>>

WfIdle ==
    /\ wdata = <<>>
    /\ ord_index = <<>>
    /\ creatable = FALSE
    /\ out_file = <<>>
    /\ n_written = 0

OvIdle ==
    /\ vector1 = <<>>
    /\ vector2 = <<>>
    /\ mapping = <<>>
    /\ mapping_kd = <<>>

ParIdle == claimed = <<>>

----------------------------------------------------------------------------
(* calculate_dists of src/src/calculate_dists.rs, called on its own *)

CdInputs == SingleRowMatrices \cup {TestValues1, TestValues2}

CdInit ==
    /\ pc = "cd_call"
    /\ values1 \in CdInputs
    /\ values2 \in CdInputs
    /\ absolute = FALSE
    /\ CdIdle
    /\ OrdIdle
    /\ RfIdle
    /\ WfIdle
    /\ OvIdle
    /\ ParIdle
    /\ VfIdle
    /\ AdjIdle
    /\ UaIdle
    /\ dists = <<>>

\* assert!(!values1.is_empty()) or assert_eq!(values1.dim(), values2.dim())
cd_calculate_dists_panics ==
    /\ pc = "cd_call"
    /\ IsEmpty(values1) \/ Dim(values1) # Dim(values2)
    /\ pc' = "panic"
    /\ UNCHANGED <<values1, values2, absolute, cd_vars, vf_vars, dists,
                   adj_vars, ua_vars, ord_vars, rf_vars,
                   wf_vars, ov_vars, par_vars>>

cd_calculate_dists_returns ==
    /\ pc = "cd_call"
    /\ ~IsEmpty(values1)
    /\ Dim(values1) = Dim(values2)
    /\ \E abs \in BOOLEAN :
         LET loc == cd_locals(values1, values2, abs)
         IN /\ absolute' = abs
            /\ values1_sorted' = loc.values1_sorted
            /\ values2_sorted' = loc.values2_sorted
            /\ dists' = loc.differences
    /\ pc' = "cd_done"
    /\ UNCHANGED <<values1, values2, vf_vars,
                   adj_vars, ua_vars, ord_vars, rf_vars,
                   wf_vars, ov_vars, par_vars>>

CdNext == cd_calculate_dists_panics \/ cd_calculate_dists_returns

SpecDP == CdInit /\ [][CdNext]_vars

----------------------------------------------------------------------------
(* calculate_dists of src/src/vector_fns.rs, called on its own *)

VfInit ==
    /\ pc = "vf_call"
    /\ \/ /\ values1 \in MultiRowMatrices
          /\ values2 \in MatricesOf(NRows(values1), NCols(values1))
       \/ values1 = TestValues1 /\ values2 = TestValues2
       \/ /\ values1 \in MatricesOf(1, 2)
          /\ values2 \in MatricesOf(1, 1) \cup MatricesOf(2, 2)
    /\ absolute = FALSE
    /\ CdIdle
    /\ OrdIdle
    /\ RfIdle
    /\ WfIdle
    /\ OvIdle
    /\ ParIdle
    /\ VfIdle
    /\ AdjIdle
    /\ UaIdle
    /\ dists = <<>>

\* assert!(!values1.is_empty()) or assert_eq!(values1.dim(), values2.dim())
vf_calculate_dists_panics ==
    /\ pc = "vf_call"
    /\ IsEmpty(values1) \/ Dim(values1) # Dim(values2)
    /\ pc' = "panic"
    /\ UNCHANGED <<values1, values2, absolute, cd_vars, vf_vars, dists,
                   adj_vars, ua_vars, ord_vars, rf_vars,
                   wf_vars, ov_vars, par_vars>>

\* both asserts pass: the locals of the matching loop as first set
vf_calculate_dists_enters(abs) ==
    /\ pc = "vf_call"
    /\ ~IsEmpty(values1)
    /\ Dim(values1) = Dim(values2)
    /\ absolute' = abs
    /\ sorting_order' = vf_get_ordering_index(values1[1], FALSE, FALSE)
    /\ n_matched' = 0
    /\ results' = [p \in 1..NCols(values1) |-> <<>>]
    /\ used_indices' = {}
    /\ pc' = "vf_loop"
    /\ UNCHANGED <<values1, values2, cd_vars, dists,
                   adj_vars, ua_vars, ord_vars, rf_vars,
                   wf_vars, ov_vars, par_vars>>

\* one iteration of for &i in sorting_order.iter()
vf_match_next ==
    /\ pc = "vf_loop"
    /\ n_matched < Len(sorting_order)
    /\ LET i == sorting_order[n_matched + 1]
           min_index == MinIndex(values1, values2, used_indices, i)
       IN /\ used_indices' = used_indices \cup {min_index}
          /\ results' = [results EXCEPT ![i + 1] = <<min_index>>]
    /\ n_matched' = n_matched + 1
    /\ UNCHANGED <<pc, values1, values2, absolute, sorting_order, cd_vars,
                   dists,
                   adj_vars, ua_vars, ord_vars, rf_vars,
                   wf_vars, ov_vars, par_vars>>

\* the second loop and the return; every min_index_option.unwrap() finds
\* a Some, the matching loop having visited every observation
vf_calculate_dists_returns ==
    /\ pc = "vf_loop"
    /\ n_matched = Len(sorting_order)
    /\ \A p \in 1..Len(results) : results[p] # <<>>
    /\ dists' = FinalResults(values1, values2, results, absolute)
    /\ pc' = "vf_done"
    /\ UNCHANGED <<values1, values2, absolute, cd_vars, vf_vars,
                   adj_vars, ua_vars, ord_vars, rf_vars,
                   wf_vars, ov_vars, par_vars>>

VfNext ==
    \/ vf_calculate_dists_panics
    \/ \E abs \in BOOLEAN : vf_calculate_dists_enters(abs)
    \/ vf_match_next
    \/ vf_calculate_dists_returns

SpecGreedy == VfInit /\ [][VfNext]_vars

----------------------------------------------------------------------------
(* adj_for_beta of src/src/mlr.rs, called on its own *)

\* the r-row matrices of n observations whose regression the model states
AdjInputs(r, n) == {m \in MatricesOf(r, n) : LeastSquaresExact(m)}

AdjInit ==
    /\ pc = "adj_call"
    /\ \E r \in 1..(1 + MaxAux), n \in 0..MaxObs :
         /\ values1 \in AdjInputs(r, n)
         /\ values2 \in AdjInputs(r, n)
    /\ in1 = values1
    /\ in2 = values2
    /\ beta1 = <<>>
    /\ beta2 = <<>>
    /\ absolute = FALSE
    /\ CdIdle
    /\ OrdIdle
    /\ RfIdle
    /\ WfIdle
    /\ OvIdle
    /\ ParIdle
    /\ VfIdle
    /\ UaIdle
    /\ dists = <<>>

\* what makes mlr_beta panic: the assert on an empty matrix, or, one
\* outcome of the library on a matrix without predictor columns, the
\* unwrap of least_squares
MlrMayPanic(data) == IsEmpty(data) \/ NRows(data) = 1

\* what lets mlr_beta return: a matrix that is not empty; without
\* predictor columns the other outcome of the library is an empty solution
MlrMayReturn(data) == ~IsEmpty(data)

adj_for_beta_panics ==
    /\ pc = "adj_call"
    /\ MlrMayPanic(values1) \/ MlrMayPanic(values2)
    /\ pc' = "panic"
    /\ UNCHANGED <<values1, values2, absolute, cd_vars, vf_vars, dists,
                   adj_vars, ua_vars, ord_vars, rf_vars,
                   wf_vars, ov_vars, par_vars>>

adj_for_beta_returns ==
    /\ pc = "adj_call"
    /\ MlrMayReturn(values1)
    /\ MlrMayReturn(values2)
    /\ beta1' = mlr_beta(values1)
    /\ beta2' = mlr_beta(values2)
    /\ values1' = AssignRow0(values1, AdjustedRow(values1, beta1', beta2'))
    /\ pc' = "adj_done"
    /\ UNCHANGED <<values2, absolute, cd_vars, vf_vars, dists, in1, in2,
                   ua_vars, ord_vars, rf_vars,
                   wf_vars, ov_vars, par_vars>>

AdjNext == adj_for_beta_panics \/ adj_for_beta_returns

SpecAdj == AdjInit /\ [][AdjNext]_vars

----------------------------------------------------------------------------
(* uamutate of src/src/lib.rs, from the return of the two readfile calls   *)
(* to the call of write_file                                               *)

\* the group vectors drawn for a run of uamutate: ids in non-decreasing
\* order (the aggregation is run on every vector under SpecAggregate)
UaGroups(n) ==
    {g \in [1..n -> 0..MaxUaGroup] : \A k \in 1..(n - 1) : g[k] <= g[k + 1]}

\* values1, groups1 and values2 as readfile returned them: the same
\* variables (rows) in both, one group id per observation of values1
UaInit ==
    /\ pc = "ua_read"
    /\ \E r \in 1..(1 + MaxAux), n \in 1..MaxObs :
         /\ values1 \in AdjInputs(r, n)
         /\ \/ values2 \in AdjInputs(r, n)
            \/ n = 2 /\ values2 \in AdjInputs(r, 1)
         /\ groups \in UaGroups(n)
    /\ in1 = values1
    /\ in2 = values2
    /\ beta1 = <<>>
    /\ beta2 = <<>>
    /\ counts = <<>>
    /\ sums = <<>>
    /\ absolute = FALSE
    /\ CdIdle
    /\ OrdIdle
    /\ RfIdle
    /\ WfIdle
    /\ OvIdle
    /\ ParIdle
    /\ VfIdle
    /\ dists = <<>>

\* adj_for_beta(&mut values1, &values2) panics in mlr_beta
ua_adj_for_beta_panics ==
    /\ pc = "ua_read"
    /\ MlrMayPanic(values1) \/ MlrMayPanic(values2)
    /\ pc' = "panic"
    /\ UNCHANGED <<values1, values2, absolute, cd_vars, vf_vars, dists,
                   adj_vars, ua_vars, ord_vars, rf_vars,
                   wf_vars, ov_vars, par_vars>>

\* adj_for_beta(&mut values1, &values2), whatever varextra holds
ua_adj_for_beta_returns ==
    /\ pc = "ua_read"
    /\ MlrMayReturn(values1)
    /\ MlrMayReturn(values2)
    /\ beta1' = mlr_beta(values1)
    /\ beta2' = mlr_beta(values2)
    /\ values1' = AssignRow0(values1, AdjustedRow(values1, beta1', beta2'))
    /\ pc' = "vf_call"
    /\ UNCHANGED <<values2, absolute, cd_vars, vf_vars, dists, in1, in2,
                   ua_vars, ord_vars, rf_vars,
                   wf_vars, ov_vars, par_vars>>

\* from let max_group to the second loop: the means per group id
ua_aggregate ==
    /\ pc = "vf_done"
    /\ groups # <<>>
    /\ LET max_group == MaxOf(groups)
           acc == Accumulate(ZeroTotals(max_group), groups, dists, 1)
       IN /\ counts' = acc.counts
          /\ sums' = Means(acc)
    /\ pc' = "ua_done"
    /\ UNCHANGED <<values1, values2, absolute, cd_vars, vf_vars, dists,
                   adj_vars, groups, ord_vars, rf_vars,
                   wf_vars, ov_vars, par_vars>>

UaNext ==
    \/ ua_adj_for_beta_panics
    \/ ua_adj_for_beta_returns
    \/ vf_calculate_dists_panics
    \/ vf_calculate_dists_enters(FALSE)
    \/ vf_match_next
    \/ vf_calculate_dists_returns
    \/ ua_aggregate

SpecUamutate == UaInit /\ [][UaNext]_vars

----------------------------------------------------------------------------
(* The aggregation of uamutate on its own: calculate_dists has returned,   *)
(* the signal and the group ids are drawn from bounded sets.               *)

\* the values of a signal: integers, a proper fraction, the infinities, NaN
SignalVals ==
    {Rat(v) : v \in Vals} \cup {<<1, 2>>, <<1, 0>>, <<0 - 1, 0>>, <<0, 0>>}

\* the example of the specification, section 8
ExampleGroups == <<1, 1, 2, 2>>

ExampleSignal == <<Rat(4), Rat(12), Rat(6), Rat(5)>>

AgInit ==
    /\ pc = "vf_done"
    /\ \/ \E n \in 1..MaxObs :
            /\ groups \in [1..n -> 0..MaxGroup]
            /\ dists \in [1..n -> SignalVals]
       \/ groups = ExampleGroups /\ dists = ExampleSignal
    /\ values1 = <<>>
    /\ values2 = <<>>
    /\ counts = <<>>
    /\ sums = <<>>
    /\ absolute = FALSE
    /\ CdIdle
    /\ OrdIdle
    /\ RfIdle
    /\ WfIdle
    /\ OvIdle
    /\ ParIdle
    /\ VfIdle
    /\ AdjIdle

AgNext == ua_aggregate

SpecAggregate == AgInit /\ [][AgNext]_vars

----------------------------------------------------------------------------
(* Both calculate_dists functions, each called on its own *)

CallsInit == CdInit \/ VfInit

CallsNext == CdNext \/ VfNext

SpecCalls == CallsInit /\ [][CallsNext]_vars

----------------------------------------------------------------------------
(* get_ordering_index of src/src/calculate_dists.rs and of                 *)
(* src/src/vector_fns.rs, called on their own                              *)

\* the slice of the tests test_get_ordering_index / _abs
TestVals == <<1, 0 - 2, 3, 0 - 4, 5>>

OrdInit ==
    /\ pc = "order_call"
    /\ ord_vals \in UNION {RowsOfLen(n) : n \in 0..MaxObs} \cup {TestVals}
    /\ ord_desc \in BOOLEAN
    /\ ord_is_abs \in BOOLEAN
    /\ ordering = <<>>
    /\ values1 = <<>>
    /\ values2 = <<>>
    /\ absolute = FALSE
    /\ CdIdle
    /\ VfIdle
    /\ AdjIdle
    /\ UaIdle
    /\ RfIdle
    /\ WfIdle
    /\ OvIdle
    /\ ParIdle
    /\ dists = <<>>

\* calculate_dists.rs: get_ordering_index returns an OrderingIndex
cd_get_ordering_index_returns ==
    /\ pc = "order_call"
    /\ ordering' = cd_get_ordering_index(ord_vals, ord_desc, ord_is_abs)
    /\ pc' = "cd_order_done"
    /\ UNCHANGED <<values1, values2, absolute, cd_vars, vf_vars, dists,
                   adj_vars, ua_vars, ord_vals, ord_desc, ord_is_abs,
                   rf_vars,
                   wf_vars, ov_vars, par_vars>>

\* vector_fns.rs: get_ordering_index returns the sorted indices
vf_get_ordering_index_returns ==
    /\ pc = "order_call"
    /\ sorting_order' = vf_get_ordering_index(ord_vals, ord_desc, ord_is_abs)
    /\ pc' = "vf_order_done"
    /\ UNCHANGED <<values1, values2, absolute, cd_vars, n_matched, results,
                   used_indices, dists, adj_vars, ua_vars, ord_vars,
                   rf_vars,
                   wf_vars, ov_vars, par_vars>>

OrdNext == cd_get_ordering_index_returns \/ vf_get_ordering_index_returns

SpecOrder == OrdInit /\ [][OrdNext]_vars

----------------------------------------------------------------------------
(* standardise_arrays of src/src/mlr.rs, called on its own, on two         *)
(* matrices with the same number of rows; the entries it leaves are the    *)
(* pairs <<num, rad>> for num / sqrt(rad), rad = 0 being a division by     *)
(* zero and rad < 0 the square root of a negative number                   *)

StdInit ==
    /\ pc = "std_call"
    /\ \/ \E n1, n2 \in 1..MaxObs :
            /\ values1 \in {<<r>> : r \in RowsOfLen(n1)}
            /\ values2 \in {<<r>> : r \in RowsOfLen(n2)}
       \/ \E n \in 1..MaxObs :
            /\ values1 \in MatricesOf(2, n)
            /\ values2 \in MatricesOf(2, n)
    /\ in1 = values1
    /\ in2 = values2
    /\ beta1 = <<>>
    /\ beta2 = <<>>
    /\ absolute = FALSE
    /\ CdIdle
    /\ OrdIdle
    /\ RfIdle
    /\ WfIdle
    /\ OvIdle
    /\ ParIdle
    /\ VfIdle
    /\ UaIdle
    /\ dists = <<>>

\* standardise_arrays has no assert and no early return: both matrices
\* are transformed in place
standardise_arrays_returns ==
    /\ pc = "std_call"
    /\ LET std == standardise_arrays(values1, values2)
       IN /\ values1' = std[1]
          /\ values2' = std[2]
    /\ pc' = "std_done"
    /\ UNCHANGED <<absolute, cd_vars, vf_vars, dists, adj_vars, ua_vars,
                   ord_vars, rf_vars,
                   wf_vars, ov_vars, par_vars>>

StdNext == standardise_arrays_returns

SpecStd == StdInit /\ [][StdNext]_vars

----------------------------------------------------------------------------
(* readfile, in its two versions: src/src/read_write_file.rs and           *)
(* src/src/readfile.rs.  A file is readable (it opens and parses as JSON)  *)
(* or not; its JSON value is an array or not; an item of the array is      *)
(* <<v>> when it is an object holding the number v under varname, and      *)
(* <<>> when it is anything else                                            *)

MaxItems == 3

Items == {<<>>} \cup {<<v>> : v \in PrimaryVals}

Files ==
    {[readable |-> FALSE, is_array |-> FALSE, items |-> <<>>],
     [readable |-> TRUE, is_array |-> FALSE, items |-> <<>>]}
    \cup {[readable |-> TRUE, is_array |-> TRUE, items |-> a] :
             a \in UNION {[1..n -> Items] : n \in 0..MaxItems}}

\* a changed loop: the break on nentries is left out
ReadLoopUnlimited(array, limit, values) ==
    LET held == SelectSeq(array, LAMBDA item : item # <<>>)
    IN values \o [p \in 1..Len(held) |-> held[p][1]]

\* the loop over the array: stop once nentries values are held, skip an
\* item without a number under varname, push the number otherwise
RECURSIVE ReadLoop(_, _, _)
ReadLoop(array, limit, values) ==
    IF array = <<>> \/ Len(values) >= limit THEN values
    ELSE ReadLoop(Tail(array), limit,
                  IF Head(array) # <<>>
                  THEN Append(values, Head(array)[1])
                  ELSE values)

\* what readfile returns: the values enumerated in reading order, sorted
\* by value with the stable sort_by, split into indices and values
readfile(f, limit) ==
    LET values == IF f.is_array THEN ReadLoop(f.items, limit, <<>>)
                  ELSE <<>>
        order == StableOrder(values, 0..(Len(values) - 1))
    IN [index |-> order,
        values |-> [p \in 1..Len(values) |-> At(values, order[p])]]

\* values.iter().tuple_windows().all(|(a, b)| a <= b)
IsSorted(s) == \A p \in 1..(Len(s) - 1) : s[p] <= s[p + 1]

RdInit ==
    /\ pc \in {"rw_call", "rf_call"}
    /\ file \in Files
    /\ nentries \in 0..MaxItems
    /\ read_index = <<>>
    /\ read_values = <<>>
    /\ WfIdle
    /\ OvIdle
    /\ ParIdle
    /\ values1 = <<>>
    /\ values2 = <<>>
    /\ absolute = FALSE
    /\ CdIdle
    /\ VfIdle
    /\ AdjIdle
    /\ UaIdle
    /\ OrdIdle
    /\ dists = <<>>

\* read_write_file.rs: the assert on nentries, the unwraps of File::open
\* and serde_json::from_reader, the asserts on the result
rw_readfile_panics ==
    /\ pc = "rw_call"
    /\ \/ nentries = 0
       \/ ~file.readable
       \/ Len(readfile(file, nentries).index)
              # Len(readfile(file, nentries).values)
       \/ ~IsSorted(readfile(file, nentries).values)
    /\ pc' = "panic"
    /\ UNCHANGED <<values1, values2, absolute, cd_vars, vf_vars, dists,
                   adj_vars, ua_vars, ord_vars, rf_vars,
                   wf_vars, ov_vars, par_vars>>

rw_readfile_returns ==
    /\ pc = "rw_call"
    /\ nentries > 0
    /\ file.readable
    /\ Len(readfile(file, nentries).index)
           = Len(readfile(file, nentries).values)
    /\ IsSorted(readfile(file, nentries).values)
    /\ read_index' = readfile(file, nentries).index
    /\ read_values' = readfile(file, nentries).values
    /\ pc' = "rw_done"
    /\ UNCHANGED <<values1, values2, absolute, cd_vars, vf_vars, dists,
                   adj_vars, ua_vars, ord_vars, file, nentries,
                   wf_vars, ov_vars, par_vars>>

\* readfile.rs: only the unwraps of File::open and serde_json::from_reader
rf_readfile_panics ==
    /\ pc = "rf_call"
    /\ ~file.readable
    /\ pc' = "panic"
    /\ UNCHANGED <<values1, values2, absolute, cd_vars, vf_vars, dists,
                   adj_vars, ua_vars, ord_vars, rf_vars,
                   wf_vars, ov_vars, par_vars>>

rf_readfile_returns ==
    /\ pc = "rf_call"
    /\ file.readable
    /\ read_index' = readfile(file, nentries).index
    /\ read_values' = readfile(file, nentries).values
    /\ pc' = "rf_done"
    /\ UNCHANGED <<values1, values2, absolute, cd_vars, vf_vars, dists,
                   adj_vars, ua_vars, ord_vars, file, nentries,
                   wf_vars, ov_vars, par_vars>>

RdNext ==
    \/ rw_readfile_panics
    \/ rw_readfile_returns
    \/ rf_readfile_panics
    \/ rf_readfile_returns

SpecRead == RdInit /\ [][RdNext]_vars

----------------------------------------------------------------------------
(* write_file of src/src/read_write_file.rs.  The file named filename is   *)
(* absent or holds lines; a line is the sequence of the pieces of text     *)
(* that make it up, without its newline                                    *)

MaxLines == 2

\* a vector of n entries, those of column c of the data of test_write_file
Column(c, n) == [p \in 1..n |-> 3 * (c - 1) + p]

WriteDatas ==
    {[values1 |-> Column(1, n1), values2 |-> Column(2, n2),
      diffs_abs |-> Column(3, n3), diffs_rel |-> Column(4, n4),
      index1 |-> Column(5, n5), index2 |-> Column(6, n6)] :
        n1 \in 0..MaxLines, n2 \in 0..MaxLines, n3 \in 0..MaxLines,
        n4 \in 0..MaxLines, n5 \in 0..MaxLines, n6 \in 0..MaxLines}

\* what a file left by an earlier run holds
OldLine == <<"old">>

\* a changed check: the assert on ord_index.len() is left out
SameLengthsButOrdIndex(d, oi) ==
    LET len == Len(d.values1)
    IN /\ Len(d.values2) = len
       /\ Len(d.diffs_abs) = len
       /\ Len(d.diffs_rel) = len
       /\ Len(d.index1) = len
       /\ Len(d.index2) = len

\* the six assert_eq! on the lengths all pass
SameLengths(d, oi) ==
    LET len == Len(d.values1)
    IN /\ Len(d.values2) = len
       /\ Len(d.diffs_abs) = len
       /\ Len(d.diffs_rel) = len
       /\ Len(d.index1) = len
       /\ Len(d.index2) = len
       /\ Len(oi) = len

\* the number of tuples the chain of zip yields: that of the shortest
ZipLen(d, oi) ==
    Min(Len(d.values1), Min(Len(d.values2), Min(Len(d.diffs_abs),
        Min(Len(d.diffs_rel), Min(Len(d.index1),
            Min(Len(d.index2), Len(oi)))))))

\* writeln!(file, "{}, {}, {}, {}, {}, {}, {}", ...) for tuple p
FormatLine(d, oi, p) ==
    <<ToString(d.values1[p]), ", ", ToString(d.values2[p]), ", ",
      ToString(d.diffs_abs[p]), ", ", ToString(d.diffs_rel[p]), ", ",
      ToString(d.index1[p]), ", ", ToString(d.index2[p]), ", ",
      ToString(oi[p])>>

WfInit ==
    /\ pc = "wf_call"
    /\ wdata \in WriteDatas
    /\ ord_index \in {Column(7, n) : n \in 0..MaxLines}
    /\ creatable \in BOOLEAN
    /\ out_file \in {[exists |-> FALSE, lines |-> <<>>],
                     [exists |-> TRUE, lines |-> <<OldLine>>]}
    /\ n_written = 0
    /\ values1 = <<>>
    /\ values2 = <<>>
    /\ absolute = FALSE
    /\ CdIdle
    /\ VfIdle
    /\ AdjIdle
    /\ UaIdle
    /\ OrdIdle
    /\ RfIdle
    /\ OvIdle
    /\ ParIdle
    /\ dists = <<>>

\* one of the assert_eq! on the lengths fails
wf_asserts_panic ==
    /\ pc = "wf_call"
    /\ ~SameLengths(wdata, ord_index)
    /\ pc' = "panic"
    /\ UNCHANGED <<values1, values2, absolute, cd_vars, vf_vars, dists,
                   adj_vars, ua_vars, ord_vars, rf_vars, wf_vars, ov_vars,
                   par_vars>>

\* File::create(filename).expect("Unable to create file") fails
wf_create_panics ==
    /\ pc = "wf_call"
    /\ SameLengths(wdata, ord_index)
    /\ ~creatable
    /\ pc' = "panic"
    /\ UNCHANGED <<values1, values2, absolute, cd_vars, vf_vars, dists,
                   adj_vars, ua_vars, ord_vars, rf_vars, wf_vars, ov_vars,
                   par_vars>>

\* File::create creates the file, or truncates the one that exists
wf_create ==
    /\ pc = "wf_call"
    /\ SameLengths(wdata, ord_index)
    /\ creatable
    /\ out_file' = [exists |-> TRUE, lines |-> <<>>]
    /\ n_written' = 0
    /\ pc' = "wf_loop"
    /\ UNCHANGED <<values1, values2, absolute, cd_vars, vf_vars, dists,
                   adj_vars, ua_vars, ord_vars, rf_vars, wdata, ord_index,
                   creatable, ov_vars, par_vars>>

\* one iteration of the loop over the zipped vectors
wf_writeln ==
    /\ pc = "wf_loop"
    /\ n_written < ZipLen(wdata, ord_index)
    /\ out_file' = [out_file EXCEPT !.lines =
                       Append(@, FormatLine(wdata, ord_index, n_written + 1))]
    /\ n_written' = n_written + 1
    /\ UNCHANGED <<pc, values1, values2, absolute, cd_vars, vf_vars, dists,
                   adj_vars, ua_vars, ord_vars, rf_vars, wdata, ord_index,
                   creatable, ov_vars, par_vars>>

\* writeln!(...).expect("Unable to write to file") fails
wf_writeln_panics ==
    /\ pc = "wf_loop"
    /\ n_written < ZipLen(wdata, ord_index)
    /\ pc' = "panic"
    /\ UNCHANGED <<values1, values2, absolute, cd_vars, vf_vars, dists,
                   adj_vars, ua_vars, ord_vars, rf_vars, wf_vars, ov_vars,
                   par_vars>>

\* the loop is over: write_file returns
wf_returns ==
    /\ pc = "wf_loop"
    /\ n_written = ZipLen(wdata, ord_index)
    /\ pc' = "wf_done"
    /\ UNCHANGED <<values1, values2, absolute, cd_vars, vf_vars, dists,
                   adj_vars, ua_vars, ord_vars, rf_vars, wf_vars, ov_vars,
                   par_vars>>

WfNext ==
    \/ wf_asserts_panic
    \/ wf_create_panics
    \/ wf_create
    \/ wf_writeln
    \/ wf_writeln_panics
    \/ wf_returns

SpecWrite == WfInit /\ [][WfNext]_vars

----------------------------------------------------------------------------
(* The matching loop of calculate_dists (src/src/vector_fns.rs) with its   *)
(* iterations run as processes, one per observation of values1: the body   *)
(* of an iteration, the search over values2 and the insert into            *)
(* used_indices, is one atomic step, and the steps come in any order       *)

ParInit ==
    /\ pc = "par_loop"
    /\ \/ \E n \in 1..MaxObs :
            /\ values1 \in MatricesOf(1, n)
            /\ values2 \in MatricesOf(1, n)
       \/ \E n \in 1..(MaxObs - 1) :
            /\ values1 \in MatricesOf(1 + MaxAux, n)
            /\ values2 \in MatricesOf(1 + MaxAux, n)
    /\ absolute = FALSE
    /\ sorting_order = vf_get_ordering_index(values1[1], FALSE, FALSE)
    /\ n_matched = 0
    /\ results = [p \in 1..NCols(values1) |-> <<>>]
    /\ used_indices = {}
    /\ claimed = <<>>
    /\ CdIdle
    /\ OrdIdle
    /\ RfIdle
    /\ WfIdle
    /\ OvIdle
    /\ AdjIdle
    /\ UaIdle
    /\ dists = <<>>

\* the iteration for observation i, whenever its process is scheduled
par_match(i) ==
    /\ pc = "par_loop"
    /\ results[i + 1] = <<>>
    /\ LET min_index == MinIndex(values1, values2, used_indices, i)
       IN /\ used_indices' = used_indices \cup {min_index}
          /\ results' = [results EXCEPT ![i + 1] = <<min_index>>]
    /\ n_matched' = n_matched + 1
    /\ claimed' = Append(claimed, i)
    /\ UNCHANGED <<pc, values1, values2, absolute, sorting_order, cd_vars,
                   dists, adj_vars, ua_vars, ord_vars, rf_vars, wf_vars,
                   ov_vars>>

\* every process is done: the second loop and the return
par_returns ==
    /\ pc = "par_loop"
    /\ \A p \in 1..Len(results) : results[p] # <<>>
    /\ dists' = FinalResults(values1, values2, results, absolute)
    /\ pc' = "par_done"
    /\ UNCHANGED <<values1, values2, absolute, cd_vars, vf_vars,
                   adj_vars, ua_vars, ord_vars, rf_vars, wf_vars, ov_vars,
                   par_vars>>

ParNext ==
    \/ \E i \in 0..(NCols(values1) - 1) : par_match(i)
    \/ par_returns

SpecParallel == ParInit /\ [][ParNext]_vars

----------------------------------------------------------------------------
(* calculate_dists of src/src/vector_fns.rs, called on values1 and         *)
(* values2 while in2 holds the observations of values2 in another order    *)

\* the orders in which n observations can be supplied
ColumnOrders(n) ==
    {f \in [1..n -> 1..n] : \A p, q \in 1..n : p # q => f[p] # f[q]}

\* matrix m with its observations (columns) in the order f
Reordered(m, f) ==
    [r \in 1..NRows(m) |-> [c \in 1..NCols(m) |-> m[r][f[c]]]]

PermInit ==
    /\ pc = "vf_call"
    /\ \/ \E n \in 0..MaxObs :
            /\ values1 \in MatricesOf(1, n)
            /\ values2 \in MatricesOf(1, n)
       \/ \E n \in 1..(MaxObs - 1) :
            /\ values1 \in MatricesOf(1 + MaxAux, n)
            /\ values2 \in MatricesOf(1 + MaxAux, n)
    /\ in1 = values1
    /\ in2 \in {Reordered(values2, f) : f \in ColumnOrders(NCols(values2))}
    /\ beta1 = <<>>
    /\ beta2 = <<>>
    /\ absolute = FALSE
    /\ CdIdle
    /\ OrdIdle
    /\ RfIdle
    /\ WfIdle
    /\ OvIdle
    /\ ParIdle
    /\ VfIdle
    /\ UaIdle
    /\ dists = <<>>

SpecPermuted == PermInit /\ [][VfNext]_vars

----------------------------------------------------------------------------
(* src/src/vector_order.rs: order_vectors_kd and order_vectors, each       *)
(* called once on the same vector1 and vector2 (slices of rows, one row    *)
(* per variable).  What a call did is <<>> before it, and afterwards a     *)
(* record: panicked, or the mapping returned                               *)

\* the slices drawn: no row at all, one row, or two rows of fewer columns
Slices ==
    {<<>>}
    \cup UNION {MatricesOf(1, n) : n \in 0..MaxObs}
    \cup UNION {MatricesOf(1 + MaxAux, n) : n \in 0..(MaxObs - 1)}

\* vector.iter().map(|v| v[i]).collect()
PointOf(vector, i) == [r \in 1..Len(vector) |-> At(vector[r], i)]

\* the sum over the zipped coordinates: as many as the shorter point has
squared_euclidean(point1, point2) ==
    SumSeq([r \in 1..Min(Len(point1), Len(point2)) |->
               (point1[r] - point2[r]) * (point1[r] - point2[r])])

\* order_vectors: for (index, _) in vector2[0].iter().enumerate(), from
\* index on; min_distance = <<>> is f64::MAX
RECURSIVE OvSearch(_, _, _, _, _, _)
OvSearch(point1, v2, used, index, min_distance, min_index) ==
    IF index >= Len(v2[1]) THEN min_index
    ELSE IF index \in used
    THEN OvSearch(point1, v2, used, index + 1, min_distance, min_index)
    ELSE LET distance == squared_euclidean(point1, PointOf(v2, index))
         IN IF min_distance = <<>> \/ distance < min_distance[1]
            THEN OvSearch(point1, v2, used, index + 1, <<distance>>, index)
            ELSE OvSearch(point1, v2, used, index + 1, min_distance,
                          min_index)

\* order_vectors: for i in 0..vector1[0].len(), from i on
RECURSIVE OvLoop(_, _, _, _, _)
OvLoop(v1, v2, i, used, map) ==
    IF i >= Len(v1[1]) THEN map
    ELSE LET min_index == OvSearch(PointOf(v1, i), v2, used, 0, <<>>, 0)
         IN OvLoop(v1, v2, i + 1, used \cup {min_index},
                   Append(map, min_index))

\* an index out of bounds in order_vectors: vector1[0], or vector2[0] once
\* the loop over the observations of vector1 is entered
OvPanics(v1, v2) ==
    IF v1 = <<>> THEN TRUE ELSE Len(v1[1]) > 0 /\ v2 = <<>>

order_vectors(v1, v2) == OvLoop(v1, v2, 0, {}, <<>>)

\* order_vectors_kd: for j in 0..vector2[0].len(), from j on
RECURSIVE KdSearch(_, _, _, _, _, _)
KdSearch(point1, v2, used, j, min_distance, min_index) ==
    IF j >= Len(v2[1]) THEN min_index
    ELSE IF j \in used
    THEN KdSearch(point1, v2, used, j + 1, min_distance, min_index)
    ELSE LET distance == squared_euclidean(point1, PointOf(v2, j))
         IN IF min_distance = <<>> \/ distance < min_distance[1]
            THEN KdSearch(point1, v2, used, j + 1, <<distance>>, j)
            ELSE KdSearch(point1, v2, used, j + 1, min_distance, min_index)

\* order_vectors_kd: for i in 0..vector1[0].len(), from i on
RECURSIVE KdLoop(_, _, _, _, _)
KdLoop(v1, v2, i, used, map) ==
    IF i >= Len(v1[1]) THEN map
    ELSE LET min_index == KdSearch(PointOf(v1, i), v2, used, 0, <<>>, 0)
         IN KdLoop(v1, v2, i + 1, used \cup {min_index},
                   Append(map, min_index))

\* kdtree.add(point, i).unwrap() for the rows of vector2: the tree has
\* vector1[0].len() dimensions and add refuses a point of another length
KdAddPanics(v1, v2) == \E r \in 1..Len(v2) : Len(v2[r]) # Len(v1[1])

\* a panic of order_vectors_kd: an index out of bounds, or the unwrap
KdPanics(v1, v2) ==
    IF v1 = <<>> THEN TRUE
    ELSE IF KdAddPanics(v1, v2) THEN TRUE
    ELSE Len(v1[1]) > 0 /\ v2 = <<>>

order_vectors_kd(v1, v2) == KdLoop(v1, v2, 0, {}, <<>>)

OvInit ==
    /\ pc = "ov_call"
    /\ vector1 \in Slices
    /\ vector2 \in Slices
    /\ mapping = <<>>
    /\ mapping_kd = <<>>
    /\ values1 = <<>>
    /\ values2 = <<>>
    /\ absolute = FALSE
    /\ CdIdle
    /\ VfIdle
    /\ AdjIdle
    /\ UaIdle
    /\ OrdIdle
    /\ RfIdle
    /\ WfIdle
    /\ ParIdle
    /\ dists = <<>>

order_vectors_panics ==
    /\ mapping = <<>>
    /\ pc \in {"ov_call", "ov_kd_done"}
    /\ OvPanics(vector1, vector2)
    /\ mapping' = [panicked |-> TRUE, map |-> <<>>]
    /\ pc' = IF pc = "ov_call" THEN "ov_done" ELSE "ov_both_done"
    /\ UNCHANGED <<values1, values2, absolute, cd_vars, vf_vars, dists,
                   adj_vars, ua_vars, ord_vars, rf_vars, wf_vars, vector1,
                   vector2, mapping_kd, par_vars>>

order_vectors_returns ==
    /\ mapping = <<>>
    /\ pc \in {"ov_call", "ov_kd_done"}
    /\ ~OvPanics(vector1, vector2)
    /\ mapping' = [panicked |-> FALSE,
                   map |-> order_vectors(vector1, vector2)]
    /\ pc' = IF pc = "ov_call" THEN "ov_done" ELSE "ov_both_done"
    /\ UNCHANGED <<values1, values2, absolute, cd_vars, vf_vars, dists,
                   adj_vars, ua_vars, ord_vars, rf_vars, wf_vars, vector1,
                   vector2, mapping_kd, par_vars>>

order_vectors_kd_panics ==
    /\ mapping_kd = <<>>
    /\ pc \in {"ov_call", "ov_done"}
    /\ KdPanics(vector1, vector2)
    /\ mapping_kd' = [panicked |-> TRUE, map |-> <<>>]
    /\ pc' = IF pc = "ov_call" THEN "ov_kd_done" ELSE "ov_both_done"
    /\ UNCHANGED <<values1, values2, absolute, cd_vars, vf_vars, dists,
                   adj_vars, ua_vars, ord_vars, rf_vars, wf_vars, vector1,
                   vector2, mapping, par_vars>>

order_vectors_kd_returns ==
    /\ mapping_kd = <<>>
    /\ pc \in {"ov_call", "ov_done"}
    /\ ~KdPanics(vector1, vector2)
    /\ mapping_kd' = [panicked |-> FALSE,
                      map |-> order_vectors_kd(vector1, vector2)]
    /\ pc' = IF pc = "ov_call" THEN "ov_kd_done" ELSE "ov_both_done"
    /\ UNCHANGED <<values1, values2, absolute, cd_vars, vf_vars, dists,
                   adj_vars, ua_vars, ord_vars, rf_vars, wf_vars, vector1,
                   vector2, mapping, par_vars>>

OvNext ==
    \/ order_vectors_panics
    \/ order_vectors_returns
    \/ order_vectors_kd_panics
    \/ order_vectors_kd_returns

SpecOrderVectors == OvInit /\ [][OvNext]_vars

----------------------------------------------------------------------------
(* The monotonic assignment of two sorted sequences, as the specification  *)
(* states it (section 4.2): what the claims compare the code with.         *)

\* the order-preserving bijections between the positions of two sequences
\* of length n
OrderPreserving(n) ==
    {f \in [1..n -> 1..n] : \A i, j \in 1..n : i < j => f[i] < f[j]}

\* the total absolute cost of pairing a[k] with b[f[k]]
PairingCost(a, b, f) ==
    SumSeq([k \in 1..Len(a) |-> Abs(a[k] - b[f[k]])])

\* the order-preserving pairings of minimum cost
MinCostPairings(a, b) ==
    {f \in OrderPreserving(Len(a)) :
        \A g \in OrderPreserving(Len(a)) :
            PairingCost(a, b, f) <= PairingCost(a, b, g)}

\* the 1-based rank of position p of vals in a stable ascending sort
RankOf(vals, p) ==
    1 + Cardinality({q \in 1..Len(vals) :
                        \/ vals[q] < vals[p]
                        \/ vals[q] = vals[p] /\ q < p})

Elements(s) == {s[k] : k \in 1..Len(s)}

SameBag(s, t) ==
    /\ Len(s) = Len(t)
    /\ \A v \in Elements(s) \cup Elements(t) : CountIn(s, v) = CountIn(t, v)

----------------------------------------------------------------------------
(* Claims C1 - C3: the dynamic-programming engine *)

\* C1: calculate_dists (calculate_dists.rs) returns, at each original
\* position p of values1, B_paired - values1[p] (divided by values1[p] when
\* relative), B_paired being the partner of values1[p] in the
\* order-preserving minimum-cost pairing of sorted values1 with sorted
\* values2; for [1,2,4,5] against [7,9,3,2] that is [1,1,3,4] and
\* [1, 1/2, 3/4, 4/5].
C1_DistsFollowMonotonePairing ==
    pc = "cd_done" =>
        LET a == SortAscending(values1[1])
            b == SortAscending(values2[1])
        IN /\ \A f \in MinCostPairings(a, b) :
                \A p \in 1..Len(values1[1]) :
                    dists[p] = Difference(values1[1][p],
                                          b[f[RankOf(values1[1], p)]],
                                          absolute)
           /\ values1 = TestValues1 /\ values2 = TestValues2 =>
                dists = IF absolute
                        THEN <<Rat(1), Rat(1), Rat(3), Rat(4)>>
                        ELSE <<Rat(1), <<1, 2>>, <<3, 4>>, <<4, 5>>>>

\* C2: no order-preserving bijection between sorted arr1 and sorted arr2
\* has a strictly smaller total absolute cost than the pairing of arr1[k]
\* with result[k] that reorder_min_diff returns.
C2_ReorderCostIsMinimal ==
    pc = "cd_done" =>
        LET n == Len(values1_sorted)
            b == SortAscending(values2[1])
        IN \A f \in OrderPreserving(n) :
               PairingCost(values1_sorted, values2_sorted, [k \in 1..n |-> k])
                   <= PairingCost(values1_sorted, b, f)

\* C3: the vector reorder_min_diff returns is a rearrangement of arr2:
\* every element of arr2 appears in it exactly once.
C3_ReorderIsRearrangement ==
    pc = "cd_done" => SameBag(values2_sorted, values2[1])

----------------------------------------------------------------------------
(* Claims C4 - C5: the greedy engine *)

\* the observation of values2 matched to position p (1-based) of values1
Partner(p) == results[p][1]

\* the observations of values2 matched before position p was visited
TakenBefore(p) ==
    {Partner(q) : q \in {q \in 1..Len(results) :
                            RankOf(values1[1], q) < RankOf(values1[1], p)}}

\* the squared Euclidean distance, over all rows, of position p of values1
\* to observation j of values2
DistTo(p, j) ==
    SumSeq([r \in 1..NRows(values1) |->
               (values1[r][p] - values2[r][j + 1])
                   * (values1[r][p] - values2[r][j + 1])])

----------------------------------------------------------------------------
(* Claims C6 - C7: the orchestrator *)

\* the signal of section 4.2 on the primary rows: the sorted primary row of
\* values2 paired in order with the sorted primary row of values1, relative
\* differences, in the original order of values1
MonotoneSignal ==
    LET a == SortAscending(values1[1])
        b == SortAscending(values2[1])
    IN [p \in 1..NCols(values1) |->
           FDiv(b[RankOf(values1[1], p)] - values1[1][p], values1[1][p])]

\* the partner of position p had the auxiliary rows been left out
PrimaryOnlyPartner(p) ==
    MinIndex(<<values1[1]>>, <<values2[1]>>, TakenBefore(p), p - 1)

\* C6 (as stated): the signal uamutate obtains is the monotonic assignment
\* of section 4.2 on the primary rows, relative differences, and the
\* auxiliary rows do not influence which observation is paired with which.
C6_SignalIsMonotoneOnPrimaryRows ==
    pc = "vf_done" /\ in1 # <<>> =>
        /\ dists = MonotoneSignal
        /\ \A p \in 1..NCols(values1) : Partner(p) = PrimaryOnlyPartner(p)

\* C6 (amended): uamutate obtains its signal from the greedy engine of
\* vector_fns.rs with relative differences: each observation of the
\* adjusted values1, in rank order of row 0, is paired with the nearest
\* not-yet-used observation of values2 by distance over all rows, the
\* auxiliary rows included.
C6_SignalIsGreedyOverAllRows ==
    pc = "vf_done" /\ in1 # <<>> =>
        /\ absolute = FALSE
        /\ \A p \in 1..NCols(values1) :
             /\ Partner(p) \in (0..(NCols(values1) - 1)) \ TakenBefore(p)
             /\ \A j \in (0..(NCols(values1) - 1)) \ TakenBefore(p) :
                    DistTo(p, Partner(p)) <= DistTo(p, j)
             /\ dists[p] = FDiv(At(values2[1], Partner(p)) - values1[1][p],
                                values1[1][p])

\* C6 witness: uamutate has its signal from an adjusted values1, every
\* entry of it finite; an auxiliary row decided a pairing and the signal is
\* not the monotone one.
C6_Witness ==
    /\ pc = "vf_done"
    /\ NRows(in1) = 2
    /\ values1 # in1
    /\ \A p \in 1..NCols(values1) : IsFinite(dists[p])
    /\ \E p \in 1..NCols(values1) : Partner(p) # PrimaryOnlyPartner(p)
    /\ dists # MonotoneSignal

\* C7: with no auxiliary variable (varextra empty) the primary row of
\* population 1 that reaches the matching step is the row that was read.
C7_NoAdjustmentWithoutAuxiliaries ==
    pc \in {"vf_call", "vf_loop", "vf_done", "ua_done"} /\ NRows(in1) = 1 =>
        values1 = in1

----------------------------------------------------------------------------
(* Claims C8 - C9: adj_for_beta *)

\* beta is the coefficient fitted on the standardised matrix m, whose
\* entries <<num, rad>> stand for num / sqrt(rad): with ax, ay the
\* numerators of the predictor and the target and rx, ry their radicands,
\* the fit is (ax.ay / ax.ax) * sqrt(rx / ry)
IsStandardisedFit(beta, m) ==
    IF NRows(m) = 1 THEN beta = <<>>
    ELSE LET ay == [o \in 1..NCols(m) |-> m[1][o][1]]
             ax == [o \in 1..NCols(m) |-> m[2][o][1]]
             ry == m[1][1][2]
             rx == m[2][1][2]
         IN rx > 0 /\ ry > 0 =>
               /\ Len(beta) = 1
               /\ IF Dot(ax, ax) = 0 THEN beta[1] = 0
                  ELSE /\ Sgn(beta[1]) = Sgn(Dot(ax, ay))
                       /\ beta[1] * beta[1] * Dot(ax, ax) * Dot(ax, ax) * ry
                              = Dot(ax, ay) * Dot(ax, ay) * rx

\* C8: adj_for_beta standardises both matrices, fits beta1 and beta2 on the
\* standardised data, and replaces row 0 of the matrix1 it was given with
\* the sum over the auxiliary variables k of aux_k[o] * (1 + beta2[k] -
\* beta1[k]).
C8_FitsOnStandardisedData ==
    pc = "adj_done" =>
        LET std == standardise_arrays(in1, in2)
        IN /\ IsStandardisedFit(beta1, std[1])
           /\ IsStandardisedFit(beta2, std[2])
           /\ values1[1] = AdjustedRow(in1, beta1, beta2)

\* C9: adj_for_beta changes row 0 of matrix1 only: every other row of
\* matrix1 is as it was before the call, and so is matrix2.
C9_OnlyRowZeroChanges ==
    pc = "adj_done" =>
        /\ Dim(values1) = Dim(in1)
        /\ \A r \in 2..NRows(in1) : values1[r] = in1[r]
        /\ values2 = in2

\* C9 witness: adj_for_beta has returned on matrices with an auxiliary row,
\* and row 0 of matrix1 is neither what it was nor a copy of that row.
C9_Witness ==
    /\ pc = "adj_done"
    /\ NRows(in1) = 2
    /\ NCols(in1) = MaxObs
    /\ values1[1] # in1[1]
    /\ values1[1] # values1[2]
    /\ beta1 # beta2

----------------------------------------------------------------------------
(* Claim C10: the aggregation *)

\* the sum of the signal over the first i observations that are in group g
RECURSIVE GroupSum(_, _)
GroupSum(g, i) ==
    IF i = 0 THEN Rat(0)
    ELSE IF groups[i] = g THEN FAdd(GroupSum(g, i - 1), dists[i])
    ELSE GroupSum(g, i - 1)

GroupSize(g) == Cardinality({i \in 1..Len(groups) : groups[i] = g})

\* the mean of the signal over group g, 0.0 for a group without observation
GroupMean(g) ==
    IF GroupSize(g) = 0 THEN Rat(0)
    ELSE FDivCount(GroupSum(g, Len(groups)), GroupSize(g))

\* C10 (as stated): the aggregation emits one value per group id from 1 to
\* the largest id, in id order; [1,1,2,2] with signal [4,12,6,5] gives the
\* two entries [8.0, 5.5].
C10_OneValuePerIdFromOne ==
    pc = "ua_done" =>
        /\ Len(sums) = MaxOf(groups)
        /\ \A g \in 1..MaxOf(groups) : sums[g] = GroupMean(g)
        /\ groups = ExampleGroups /\ dists = ExampleSignal =>
               sums = <<Rat(8), <<11, 2>>>>

\* C10 (amended): the aggregation emits one value per group id from 0 to
\* the largest id, in id order, 0.0 for an id no observation has;
\* [1,1,2,2] with signal [4,12,6,5] gives the three entries [0.0, 8.0, 5.5].
C10_OneValuePerIdFromZero ==
    pc = "ua_done" =>
        /\ Len(sums) = MaxOf(groups) + 1
        /\ \A g \in 0..MaxOf(groups) : sums[g + 1] = GroupMean(g)
        /\ groups = ExampleGroups /\ dists = ExampleSignal =>
               sums = <<Rat(0), Rat(8), <<11, 2>>>>

\* C10 witness: the example has been aggregated, with id 0 unobserved.
C10_Witness ==
    /\ pc = "ua_done"
    /\ groups = ExampleGroups
    /\ dists = ExampleSignal
    /\ Len(sums) = 3
    /\ sums[1] = Rat(0)

----------------------------------------------------------------------------
(* Claim C11: the aggregation, observation by observation *)

\* C11: every observation is counted in exactly one group, the one its
\* group id names; the value emitted at index g is the sum of the signals
\* of the observations with id g divided by their number, and 0.0 for an
\* id that no observation has.
C11_EveryObservationInItsGroup ==
    pc = "ua_done" =>
        /\ SumSeq(counts) = Len(groups)
        /\ \A g \in 0..(Len(counts) - 1) : counts[g + 1] = GroupSize(g)
        /\ \A i \in 1..Len(groups) : groups[i] + 1 \in 1..Len(sums)
        /\ \A g \in 0..(Len(sums) - 1) :
             sums[g + 1] =
                 IF counts[g + 1] = 0 THEN Rat(0)
                 ELSE FDivCount(GroupSum(g, Len(groups)), counts[g + 1])

\* C11 witness: the aggregation is done; one id holds two observations of
\* different finite signal, and a smaller id holds none.
C11_Witness ==
    /\ pc = "ua_done"
    /\ \E i, j \in 1..Len(groups) :
         /\ i # j
         /\ groups[i] = groups[j]
         /\ dists[i] # dists[j]
         /\ IsFinite(dists[i]) /\ IsFinite(dists[j])
         /\ \E g \in 0..(groups[i] - 1) : counts[g + 1] = 0 /\ sums[g + 1] = Rat(0)

----------------------------------------------------------------------------
(* Claims C12 - C13: get_ordering_index *)

\* the sort order a call of get_ordering_index has returned
SortOrder == IF pc = "cd_order_done" THEN ordering.index_sort
             ELSE sorting_order

\* the key of position i (0-based) of the slice: the magnitude when
\* is_abs, the value otherwise
KeyOf(i) == IF ord_is_abs THEN Abs(At(ord_vals, i)) ELSE At(ord_vals, i)

\* C12: the sort order get_ordering_index returns is a permutation of
\* 0..n-1 that lists the indices in non-decreasing order of the key
\* (non-increasing when desc; the key is the magnitude when is_abs), equal
\* keys in their original relative order; the tests' slice [1,-2,3,-4,5]
\* gives [3,1,0,2,4], reversed when desc, and [0,1,2,3,4] by magnitude,
\* reversed when desc.
C12_SortOrderIsStablePermutation ==
    pc \in {"cd_order_done", "vf_order_done"} =>
        LET n == Len(ord_vals)
        IN /\ Len(SortOrder) = n
           /\ {SortOrder[k] : k \in 1..n} = 0..(n - 1)
           /\ \A k \in 1..(n - 1) :
                LET a == KeyOf(SortOrder[k])
                    b == KeyOf(SortOrder[k + 1])
                IN /\ IF ord_desc THEN a >= b ELSE a <= b
                   /\ a = b => SortOrder[k] < SortOrder[k + 1]
           /\ ord_vals = TestVals =>
                SortOrder =
                    IF ord_is_abs
                    THEN (IF ord_desc THEN <<4, 3, 2, 1, 0>>
                          ELSE <<0, 1, 2, 3, 4>>)
                    ELSE (IF ord_desc THEN <<4, 2, 0, 1, 3>>
                          ELSE <<3, 1, 0, 2, 4>>)

\* C12 witness: a descending order by magnitude has been returned for a
\* slice that holds two entries of equal magnitude and opposite sign and a
\* larger entry after them.
C12_Witness ==
    /\ pc \in {"cd_order_done", "vf_order_done"}
    /\ ord_desc
    /\ ord_is_abs
    /\ \E i, j, k \in 1..Len(ord_vals) :
         /\ i < j
         /\ j < k
         /\ ord_vals[i] = 0 - ord_vals[j]
         /\ ord_vals[i] # 0
         /\ Abs(ord_vals[k]) > Abs(ord_vals[i])

\* C13: index_reorder is the inverse of index_sort:
\* index_reorder[index_sort[i]] = i and index_sort[index_reorder[p]] = p,
\* so the slice sorted by index_sort and re-indexed by index_reorder is
\* the slice again; the tests' slice gives index_reorder [2,1,3,0,4].
C13_ReorderInvertsSort ==
    pc = "cd_order_done" =>
        LET n == Len(ord_vals)
            sorted == [k \in 1..n |-> At(ord_vals, ordering.index_sort[k])]
        IN /\ Len(ordering.index_reorder) = n
           /\ \A i \in 0..(n - 1) :
                /\ At(ordering.index_reorder, At(ordering.index_sort, i)) = i
                /\ At(ordering.index_sort, At(ordering.index_reorder, i)) = i
           /\ [p \in 1..n |-> At(sorted, ordering.index_reorder[p])]
                  = ord_vals
           /\ ord_vals = TestVals /\ ~ord_desc /\ ~ord_is_abs =>
                ordering.index_reorder = <<2, 1, 3, 0, 4>>

\* C13 witness: an OrderingIndex has been returned whose index_sort is a
\* permutation that is not its own inverse.
C13_Witness ==
    /\ pc = "cd_order_done"
    /\ ordering.index_reorder # ordering.index_sort
    /\ Len(ord_vals) = MaxObs

----------------------------------------------------------------------------
(* Claims C14 - C15: the two calculate_dists functions *)

\* values1 is empty, or the dimensions of values1 and values2 differ
BadArguments ==
    \/ NRows(values1) = 0
    \/ NCols(values1) = 0
    \/ NRows(values1) # NRows(values2)
    \/ NCols(values1) # NCols(values2)

\* C14: either calculate_dists aborts, without returning a result,
\* whenever values1 is empty or the dimensions of values1 and values2
\* differ: such a call can take the panic, takes no other step, and is
\* never past its asserts.
C14_BadArgumentsAbort ==
    /\ [](BadArguments => pc \in {"cd_call", "vf_call", "panic"})
    /\ [](BadArguments => dists = <<>>)
    /\ [](BadArguments /\ pc \in {"cd_call", "vf_call"} => ENABLED CallsNext)
    /\ [][BadArguments /\ pc \in {"cd_call", "vf_call"} => pc' = "panic"]_vars

\* C14 witness: a call has aborted on a values1 that is not empty, the two
\* matrices differing in their number of rows.
C14_Witness ==
    /\ pc = "panic"
    /\ NCols(values1) > 0
    /\ NRows(values1) # NRows(values2)

\* the values2 entry a finished call has paired with position p of values1
PairedWith(p) ==
    IF pc = "cd_done" THEN values2_sorted[RankOf(values1[1], p)]
    ELSE At(values2[1], Partner(p))

\* C15: with absolute = true every value calculate_dists returns is an
\* absolute value, non-negative; with absolute = false every value is the
\* difference relative to the values1 entry.
C15_AbsoluteIsNonNegative ==
    pc \in {"cd_done", "vf_done"} =>
        \A p \in 1..Len(dists) :
            IF absolute THEN dists[p][1] >= 0
            ELSE dists[p] = FDiv(PairedWith(p) - values1[1][p], values1[1][p])

----------------------------------------------------------------------------
(* Claims C16 - C18: standardise_arrays *)

\* the numerators of row i of a standardised matrix
Nums(m, i) == [o \in 1..NCols(m) |-> m[i][o][1]]

\* the radicand row i of the standardised matrices carries
RadOf(i) == values1[i][1][2]

\* n * n times the population variance of a row of integers
VarTimesNSq(row) == Len(row) * Dot(row, row) - SumSeq(row) * SumSeq(row)

\* the observations of row i of both input matrices
PooledRow(i) == in1[i] \o in2[i]

\* C16: after standardise_arrays, for every row the mean of the values
\* pooled over both matrices is 0 and their pooled population standard
\* deviation is 1, and one (mean, std_dev) pair transformed the row in
\* both matrices.
C16_PooledMeanZeroStdOne ==
    pc = "std_done" =>
        \A i \in 1..NRows(values1) :
            LET nums == Nums(values1, i) \o Nums(values2, i)
                rad == RadOf(i)
                shift == Len(PooledRow(i)) * in1[i][1] - values1[i][1][1]
            IN /\ rad > 0
               /\ SumSeq(nums) = 0
               /\ Dot(nums, nums) = Len(nums) * rad
               /\ \A o \in 1..NCols(values1) :
                    /\ values1[i][o][2] = rad
                    /\ Len(PooledRow(i)) * in1[i][o] - values1[i][o][1]
                           = shift
               /\ \A o \in 1..NCols(values2) :
                    /\ values2[i][o][2] = rad
                    /\ Len(PooledRow(i)) * in2[i][o] - values2[i][o][1]
                           = shift

\* the mean of row i of matrix m has become strictly smaller in magnitude:
\* (sum of num)^2 / rad < (sum of x)^2, both means over the same count
MeanShrank(before, after, i) ==
    SumSeq(Nums(after, i)) * SumSeq(Nums(after, i))
        < RadOf(i) * SumSeq(before[i]) * SumSeq(before[i])

\* the standard deviation of row i of matrix m has become strictly
\* smaller: var(num) / rad < var(x)
StdShrank(before, after, i) ==
    VarTimesNSq(Nums(after, i)) < RadOf(i) * VarTimesNSq(before[i])

MeanNearPooledMean(m, i) ==
    LET n == NCols(m)
        N == Len(PooledRow(i))
        s == SumSeq(m[i])
        S == SumSeq(PooledRow(i))
    IN (N * s - n * S) * (N * s - n * S) < VarTimesNSq(PooledRow(i)) * s * s

\* the pooled standard deviation of row i exceeds 1
PooledStdAboveOne(i) ==
    VarTimesNSq(PooledRow(i)) > Len(PooledRow(i)) * Len(PooledRow(i))

Undefined(e) == e[2] <= 0

\* C18: standardise_arrays does not return matrices with undefined values
\* for a row whose pooled variance is zero: there the computation aborts.
C18_ZeroVarianceAborts ==
    pc = "std_done" =>
        \A i \in 1..NRows(in1) :
            VarTimesNSq(PooledRow(i)) = 0 =>
                /\ \A o \in 1..NCols(values1) : ~Undefined(values1[i][o])
                /\ \A o \in 1..NCols(values2) : ~Undefined(values2[i][o])

----------------------------------------------------------------------------
(* Claim C19: mlr_beta without an independent variable *)

\* mlr_beta has something to regress on: the matrix is not empty and has
\* a row besides the dependent variable's
HasPredictor(data) == ~IsEmpty(data) /\ NRows(data) >= 2

\* C19: mlr_beta fails whenever its matrix is empty or has fewer than two
\* rows: adj_for_beta, which calls it on both matrices, returns only when
\* both have an independent variable.
C19_MlrBetaNeedsPredictor ==
    pc = "adj_done" => HasPredictor(in1) /\ HasPredictor(in2)

----------------------------------------------------------------------------
(* Claim C20: readfile and a record without the requested field *)

\* the records readfile was asked for: the first nentries items of the
\* array (the loop looks at each of them unless it has run out of items)
RecordsRead ==
    IF file.is_array
    THEN {file.items[p] : p \in 1..Min(nentries, Len(file.items))}
    ELSE {}

\* C20: readfile returns values only when every record read holds a
\* number under varname; a record without one makes it abort.
C20_MissingFieldAborts ==
    pc \in {"rw_done", "rf_done"} => <<>> \notin RecordsRead

----------------------------------------------------------------------------
(* Claims C21, C22: what readfile returns *)

\* C21: readfile never returns for a record limit of zero: with
\* nentries = 0 it aborts, in read_write_file.rs and in readfile.rs.
C21_ZeroLimitAborts ==
    pc \in {"rw_done", "rf_done"} => nentries > 0

\* the values the file holds under varname, in file order
ValuesInFile ==
    LET held == SelectSeq(file.items, LAMBDA item : item # <<>>)
    IN [p \in 1..Len(held) |-> held[p][1]]

\* C22: readfile of read_write_file.rs, for nentries > 0, returns index
\* and values of the same length min(nentries, number of records with a
\* number under varname); values is non-decreasing, index is a
\* permutation of 0..len-1, and values[k] is the value read at position
\* index[k].
C22_ReadfileReturnsSortedValues ==
    pc = "rw_done" =>
        LET len == Min(nentries, Len(ValuesInFile))
        IN /\ nentries > 0
           /\ Len(read_index) = len
           /\ Len(read_values) = len
           /\ \A p \in 1..(len - 1) : read_values[p] <= read_values[p + 1]
           /\ {read_index[p] : p \in 1..len} = 0..(len - 1)
           /\ \A p \in 1..len :
                read_values[p] = At(ValuesInFile, read_index[p])

\* C22 witness: readfile has returned two values from a file of more
\* than nentries records, after skipping a record without the field, and
\* in another order than it read them.
C22_Witness ==
    /\ pc = "rw_done"
    /\ <<>> \in RecordsRead
    /\ Len(read_values) = 2
    /\ Len(file.items) > nentries
    /\ read_index[1] # 0

----------------------------------------------------------------------------
(* Claims C23, C24: write_file *)

\* the lengths of the seven vectors handed to write_file
VectorLengths ==
    {Len(wdata.values1), Len(wdata.values2), Len(wdata.diffs_abs),
     Len(wdata.diffs_rel), Len(wdata.index1), Len(wdata.index2),
     Len(ord_index)}

\* a line of numeric values separated by comma and space
IsValueLine(line) ==
    /\ Len(line) % 2 = 1
    /\ \A p \in 1..Len(line) :
         IF p % 2 = 0 THEN line[p] = ", "
         ELSE line[p] \notin {", ", "mutation", "old"}

\* C23: the file write_file leaves starts with a header line that names
\* the mutation column, followed by exactly one line per observation
\* holding the values separated by comma and space.
C23_HeaderThenOneLinePerObservation ==
    pc = "wf_done" =>
        /\ Len(out_file.lines) = 1 + Len(wdata.values1)
        /\ \E p \in 1..Len(out_file.lines[1]) :
               out_file.lines[1][p] = "mutation"
        /\ \A q \in 2..Len(out_file.lines) : IsValueLine(out_file.lines[q])

\* C24: when the vectors handed to write_file differ in length, the call
\* aborts with the file as it was: not created, not truncated, not
\* written to.
C24_NoOutputOnLengthMismatch ==
    /\ [](Cardinality(VectorLengths) > 1 => pc \in {"wf_call", "panic"})
    /\ [][Cardinality(VectorLengths) > 1 =>
              pc' = "panic" /\ out_file' = out_file]_vars

\* C24 witness: write_file has aborted on vectors of different lengths,
\* only ord_index differing, and the file of an earlier run, which it
\* could have truncated, holds what it held.
C24_Witness ==
    /\ pc = "panic"
    /\ Cardinality(VectorLengths) > 1
    /\ Cardinality(VectorLengths \ {Len(ord_index)}) = 1
    /\ creatable
    /\ out_file = [exists |-> TRUE, lines |-> <<OldLine>>]

----------------------------------------------------------------------------
(* Claim C25: the table of reorder_min_diff *)

\* the order-preserving pairings of the first i elements of one sequence
\* with i of the first j elements of another
PrefixPairings(i, j) ==
    {f \in [1..i -> 1..j] : \A p, q \in 1..i : p < q => f[p] < f[q]}

\* the total absolute cost of pairing a[p] with b[f[p]], p = 1..i
PrefixCost(a, b, f, i) ==
    SumSeq([p \in 1..i |-> Abs(a[p] - b[f[p]])])

\* C25: once reorder_min_diff has filled its table, dp[i][j] for
\* 1 <= i <= j <= n is the minimum total absolute difference of an
\* order-preserving pairing of the first i elements of arr1 with i of the
\* first j elements of arr2, and dp[n][n] is the cost of the pairing the
\* backtracking loop returns.
C25_DpHoldsPrefixMinimum ==
    pc = "cd_done" =>
        LET arr1 == values1_sorted
            arr2 == SortAscending(values2[1])
            n == Len(arr1)
            dp == FilledTables(arr1, arr2).dp
        IN /\ \A i \in 1..n : \A j \in i..n :
                /\ \E f \in PrefixPairings(i, j) :
                       dp[i][j] = PrefixCost(arr1, arr2, f, i)
                /\ \A f \in PrefixPairings(i, j) :
                       dp[i][j] <= PrefixCost(arr1, arr2, f, i)
           /\ dp[n][n] = PairingCost(arr1, values2_sorted,
                                     [p \in 1..n |-> p])

----------------------------------------------------------------------------
(* Claim C26: the matching loop run as concurrent processes *)

\* the pairing of the sequential loop: the observations taken in the
\* order given, from position p of it on
RECURSIVE SequentialFrom(_, _, _, _, _, _)
SequentialFrom(m1, m2, order, p, used, res) ==
    IF p > Len(order) THEN res
    ELSE LET i == order[p]
             min_index == NearestFrom(Observation(m1, i), m2, used, 0, <<>>, 0)
         IN SequentialFrom(m1, m2, order, p + 1, used \cup {min_index},
                           [res EXCEPT ![i + 1] = <<min_index>>])

SequentialResults ==
    SequentialFrom(values1, values2, sorting_order, 1, {},
                   [p \in 1..NCols(values1) |-> <<>>])

\* C26 (as stated): whatever the order in which the processes make their
\* search-and-claim, the final pairing is that of the sequential loop.
C26_AnyInterleavingGivesSequentialPairing ==
    pc = "par_done" => results = SequentialResults

\* the target observation i would take with nothing claimed
FirstChoice(i) == NearestFrom(Observation(values1, i), values2, {}, 0, <<>>, 0)

\* no two observations of values1 have the same first choice
NoCompetition ==
    \A i, j \in 0..(NCols(values1) - 1) :
        i # j => FirstChoice(i) # FirstChoice(j)

\* C26 (amended): with each search-and-claim atomic, in any interleaving
\* the final pairing is one-to-one, and it is the pairing of the
\* sequential loop when the claims are made in rank order or no two
\* observations of values1 have the same nearest observation of values2.
C26_InterleavingKeepsOneToOne ==
    pc = "par_done" =>
        /\ \A p, q \in 1..Len(results) : p # q => results[p] # results[q]
        /\ claimed = sorting_order \/ NoCompetition =>
               results = SequentialResults

\* C26 witness: all processes are done, their claims were not made in
\* rank order, two of them competed for a target, and the pairing is
\* one-to-one but not the sequential one.
C26_Witness ==
    /\ pc = "par_done"
    /\ claimed # sorting_order
    /\ ~NoCompetition
    /\ results # SequentialResults
    /\ Cardinality({results[p] : p \in 1..Len(results)}) = Len(results)

----------------------------------------------------------------------------
(* Claim C27: the order of the observations of values2 *)

\* what calculate_dists returns on m1 and m2
DistsOn(m1, m2, abs) ==
    LET order == vf_get_ordering_index(m1[1], FALSE, FALSE)
        res == SequentialFrom(m1, m2, order, 1, {},
                              [p \in 1..NCols(m1) |-> <<>>])
    IN FinalResults(m1, m2, res, abs)

\* C27 (as stated): calculate_dists returns the same vector whatever the
\* order in which the observations of values2 are supplied.
C27_IndependentOfOrderOfValues2 ==
    pc = "vf_done" => dists = DistsOn(values1, in2, absolute)

\* no observation of values1 is equally distant from two observations of
\* values2 that differ
NoTies ==
    \A i \in 0..(NCols(values1) - 1) : \A j, l \in 0..(NCols(values2) - 1) :
        Observation(values2, j) # Observation(values2, l) =>
            SquaredDist(Observation(values1, i), Observation(values2, j))
                # SquaredDist(Observation(values1, i), Observation(values2, l))

\* C27 (amended): calculate_dists returns the same vector for every order
\* of the observations of values2 when no observation of values1 is
\* equally distant from two different observations of values2; on such a
\* tie the observation supplied first is taken.
C27_IndependentOfOrderWithoutTies ==
    pc = "vf_done" /\ NoTies => dists = DistsOn(values1, in2, absolute)

\* C27 witness: calculate_dists has returned for three observations
\* without ties; in2 holds those of values2 in another order, and the same
\* vector comes of it.
C27_Witness ==
    /\ pc = "vf_done"
    /\ NCols(values1) = 3
    /\ in2 # values2
    /\ NoTies
    /\ dists = DistsOn(values1, in2, absolute)
    /\ \E p \in 1..3 : IsFinite(dists[p]) /\ dists[p] # Rat(0)

----------------------------------------------------------------------------
(* Claim C28: order_vectors_kd against order_vectors *)

\* the number of observations a slice of rows holds
ObservationsOf(vector) == IF vector = <<>> THEN 0 ELSE Len(vector[1])

\* a mapping that assigns distinct indices
Distinct(map) == \A p, q \in 1..Len(map) : p # q => map[p] # map[q]

\* C28: on every pair of inputs on which order_vectors returns a mapping,
\* order_vectors_kd returns too, and the same mapping; the mapping assigns
\* distinct indices of vector2 when vector1 has no more observations than
\* vector2.
C28_KdReturnsSameMapping ==
    pc = "ov_both_done" /\ ~mapping.panicked =>
        /\ ~mapping_kd.panicked
        /\ mapping_kd.map = mapping.map
        /\ ObservationsOf(vector1) <= ObservationsOf(vector2) =>
               Distinct(mapping.map)

====
